---- MODULE Spec2Model ----
(***************************************************************************)
(* Model of the SEO analysis engine of src/server/search.js: the page      *)
(* fetch (fetchAndParseUrl), robots.txt and sitemap discovery              *)
(* (checkRobotsTxt, checkSitemap), the document checks, the orchestrator   *)
(* (performSeoAnalysis) and the POST /analyze route handler.               *)
(*                                                                         *)
(* A URL string is a sequence of tokens: the two scheme prefixes, the      *)
(* prefix "HTTP://" (a scheme in capitals), a host character "h" and a     *)
(* character "%" that no host may contain.                                 *)
(***************************************************************************)
EXTENDS Integers, Sequences, FiniteSets, TLC

\* ---------------------------------------------------------------- bounds
MaxUrlLen == 2
MaxRobotsLines == 1
MaxCalls == 1

\* ------------------------------------------------------------- constants
FETCH_TIMEOUT == 15000
MAX_CONTENT_SIZE == 5 * 1024 * 1024
RobotsContentCap == 5000

\* FETCH_TIMEOUT / 2: the delay of the abort timer of a robots.txt request
\* and of every sitemap probe
CheckTimeout == FETCH_TIMEOUT \div 2

\* ------------------------------------------------------------ URL strings
Schemes == {"http://", "https://"}

\* a scheme written in capitals: a URL parser reads it as the scheme http,
\* String.prototype.startsWith does not match it
CapitalSchemes == {"HTTP://"}

SchemeTokens == Schemes \cup CapitalSchemes

Tokens == SchemeTokens \cup {"h", "%"}

SeqsUpTo(S, n) == UNION {[1..k -> S] : k \in 0..n}

Urls == SeqsUpTo(Tokens, MaxUrlLen)

\* String.prototype.startsWith for a scheme prefix
startsWith(s, prefix) == Len(s) > 0 /\ s[1] = prefix

\* the scheme normalisation shared by the route, performSeoAnalysis and
\* fetchAndParseUrl
NormalizeUrl(u) ==
    IF ~startsWith(u, "http://") /\ ~startsWith(u, "https://")
    THEN <<"http://">> \o u
    ELSE u

\* the longest prefix of s that holds no scheme token
RECURSIVE HostChars(_)
HostChars(s) ==
    IF s = <<>> \/ s[1] \in SchemeTokens THEN <<>>
    ELSE <<s[1]>> \o HostChars(Tail(s))

\* the letters of a scheme token, in the lower case a URL parser gives them
SchemeName(t) == IF t \in {"http://", "HTTP://"} THEN "http" ELSE "https"

\* URL.protocol followed by "//"
SchemePrefix(t) == IF t \in {"http://", "HTTP://"} THEN "http://" ELSE "https://"

\* the host of an absolute URL: the characters after the scheme up to the
\* next ":" or "/"; a following scheme token contributes its letters
HostOf(u) ==
    LET rest == Tail(u)
        hc == HostChars(rest)
    IN  IF Len(hc) < Len(rest) /\ rest[Len(hc) + 1] \in SchemeTokens
        THEN hc \o <<SchemeName(rest[Len(hc) + 1])>>
        ELSE hc

\* new URL(u) parses: u is absolute and has a non-empty host without
\* forbidden characters
UrlParses(u) ==
    /\ Len(u) >= 2
    /\ u[1] \in SchemeTokens
    /\ HostOf(u) # <<>>
    /\ \A i \in 1..Len(HostOf(u)) : HostOf(u)[i] # "%"

\* URL.origin
Origin(u) == <<SchemePrefix(u[1])>> \o HostOf(u)

\* --------------------------------------------------------- the fetched page
\* A parsed document is a flat sequence of elements [tag, val]; val is the
\* element's text or the attribute value the checks read.
Elem(t, v) == [tag |-> t, val |-> v]

\* the selector of analyzeContent's remove()
NonContentTags ==
    {"script", "style", "noscript", "svg", "header", "footer", "nav", "aside",
     "form", "button", "input", "select", "textarea"}

HeadingTags == {"h1", "h2", "h3", "h4", "h5", "h6"}

RECURSIVE SelectSeq2(_, _)
\* $(selector): the elements whose tag is in tags, in document order
SelectSeq2(doc, tags) ==
    IF doc = <<>> THEN <<>>
    ELSE IF doc[1].tag \in tags
         THEN <<doc[1]>> \o SelectSeq2(Tail(doc), tags)
         ELSE SelectSeq2(Tail(doc), tags)

\* $(selector).remove(): the document without the selected elements
RECURSIVE Remove(_, _)
Remove(doc, tags) ==
    IF doc = <<>> THEN <<>>
    ELSE IF doc[1].tag \in tags
         THEN Remove(Tail(doc), tags)
         ELSE <<doc[1]>> \o Remove(Tail(doc), tags)

\* $(selector).attr(name) / first text: the value of the first match, "" if none
FirstVal(doc, tag) ==
    LET m == SelectSeq2(doc, {tag}) IN IF m = <<>> THEN "" ELSE m[1].val

\* a || b on strings
Or(a, b) == IF a # "" THEN a ELSE b

RECURSIVE Vals(_)
Vals(els) == IF els = <<>> THEN <<>> ELSE <<els[1].val>> \o Vals(Tail(els))

RECURSIVE NonEmpty(_)
NonEmpty(vs) ==
    IF vs = <<>> THEN <<>>
    ELSE IF vs[1] # "" THEN <<vs[1]>> \o NonEmpty(Tail(vs))
         ELSE NonEmpty(Tail(vs))

RECURSIVE CountVal(_, _)
CountVal(els, v) ==
    IF els = <<>> THEN 0
    ELSE (IF els[1].val = v THEN 1 ELSE 0) + CountVal(Tail(els), v)

\* ----------------------------------------------------------- document checks
\* new URL(finalUrl).protocol === 'https:'; the catch block answers a final
\* URL that does not parse
checkHttps(finalUrl) ==
    IF UrlParses(finalUrl)
    THEN [usesHttps |-> SchemePrefix(finalUrl[1]) = "https://", error |-> ""]
    ELSE [usesHttps |-> FALSE, error |-> "Invalid final URL"]

\* Twitter Card fields that fall back to the primary values directly
analyzeMetaTagsTwitterSkipsOg(doc) ==
    LET title == FirstVal(doc, "title")
        description == FirstVal(doc, "meta:description")
        ogTitle == FirstVal(doc, "og:title")
        ogDescription == FirstVal(doc, "og:description")
        twitterTitle == FirstVal(doc, "twitter:title")
        twitterDescription == FirstVal(doc, "twitter:description")
    IN  [title |-> title,
         description |-> description,
         ogTitle |-> Or(ogTitle, title),
         ogDescription |-> Or(ogDescription, description),
         twitterTitle |-> Or(twitterTitle, title),
         twitterDescription |-> Or(twitterDescription, description)]

analyzeMetaTags(doc) ==
    LET title == FirstVal(doc, "title")
        description == FirstVal(doc, "meta:description")
        ogTitle == FirstVal(doc, "og:title")
        ogDescription == FirstVal(doc, "og:description")
        twitterTitle == FirstVal(doc, "twitter:title")
        twitterDescription == FirstVal(doc, "twitter:description")
    IN  [title |-> title,
         description |-> description,
         ogTitle |-> Or(ogTitle, title),
         ogDescription |-> Or(ogDescription, description),
         twitterTitle |-> Or(Or(twitterTitle, ogTitle), title),
         twitterDescription |-> Or(Or(twitterDescription, ogDescription), description)]

\* the trimmed, non-empty texts of the headings of one level
HeadingTexts(doc, tag) == NonEmpty(Vals(SelectSeq2(doc, {tag})))

analyzeHeadings(doc) ==
    LET structure == [t \in HeadingTags |-> HeadingTexts(doc, t)]
    IN  [structure |-> structure,
         total |-> Len(structure["h1"]) + Len(structure["h2"]) + Len(structure["h3"])
                   + Len(structure["h4"]) + Len(structure["h5"]) + Len(structure["h6"]),
         h1Count |-> Len(structure["h1"]),
         h1Content |-> structure["h1"]]

\* a classification that counts an empty alt as a missing alt as well
analyzeImagesEmptyIsMissing(doc) ==
    LET imgs == SelectSeq2(doc, {"img"})
    IN  [count |-> Len(imgs) - CountVal(imgs, "nosrc"),
         missingAltCount |-> CountVal(imgs, "noalt") + CountVal(imgs, "emptyalt"),
         presentationalAltCount |-> CountVal(imgs, "emptyalt")]

\* an img element's val tells its attributes: "nosrc" (no src), "noalt"
\* (src, no alt), "emptyalt" (src, alt = ""), "alt" (src, non-empty alt)
analyzeImages(doc) ==
    LET imgs == SelectSeq2(doc, {"img"})
    IN  [count |-> Len(imgs) - CountVal(imgs, "nosrc"),
         missingAltCount |-> CountVal(imgs, "noalt"),
         presentationalAltCount |-> CountVal(imgs, "emptyalt")]

\* the elements whose text is part of $('body').text()
TextTags == HeadingTags \cup {"p", "nav", "header", "footer", "button", "noscript"}

\* analyzeContent's word count on the document left after remove(); every
\* text element with a non-empty text holds one word
WordCount(doc) == Len(NonEmpty(Vals(SelectSeq2(doc, TextTags))))

analyzeContent(doc) == [wordCount |-> WordCount(Remove(doc, NonContentTags))]

\* a meta:viewport element's val is its content attribute
checkMobileFriendliness(doc) ==
    LET viewport == FirstVal(doc, "meta:viewport")
    IN  [hasViewportMeta |-> viewport # "",
         hasWidthDeviceWidth |-> viewport \in {"width=device-width", "width=device-width, initial-scale=1"},
         hasInitialScale |-> viewport \in {"initial-scale=1", "width=device-width, initial-scale=1"},
         usesFlash |-> SelectSeq2(doc, {"embed:flash"}) # <<>>]

\* an ld+json script element's val tells its body: "ok:<x>" valid JSON,
\* "bad" invalid JSON, "" an empty script
RECURSIVE SchemaData(_)
SchemaData(scripts) ==
    IF scripts = <<>> THEN <<>>
    ELSE LET v == scripts[1].val
         IN  (IF v = "" THEN <<>>
              ELSE IF v = "bad" THEN <<"error:Failed to parse">>
              ELSE <<v>>) \o SchemaData(Tail(scripts))

checkSchemaMarkup(doc) ==
    LET scripts == SelectSeq2(doc, {"script"})
        data == SchemaData(scripts)
        hasMicrodata == SelectSeq2(doc, {"itemscope"}) # <<>>
    IN  [hasSchema |-> (Len(data) > CountVal(scripts, "bad")) \/ hasMicrodata,
         jsonLdCount |-> Len(data),
         jsonLdParseErrors |-> CountVal(scripts, "bad"),
         hasMicrodata |-> hasMicrodata,
         data |-> data]

\* the document checks in the order performSeoAnalysis evaluates them
CheckOrder ==
    <<"https", "metaTags", "headings", "images", "content", "mobileFriendly",
      "schemaMarkup">>

DocChecks == {CheckOrder[i] : i \in 1..Len(CheckOrder)}

IndexOf(name) == CHOOSE i \in 1..Len(CheckOrder) : CheckOrder[i] = name

\* ------------------------------------------------------------- robots.txt
\* A robots.txt body is a sequence of lines.  A line other than "#pad" is a
\* "Sitemap: <line>" directive; "#pad" is a comment of RobotsContentCap
\* characters.
RelativeTargets == {"/sitemap.xml", "/custom.xml"}
InvalidTargets == {"http://%"}
RobotsLines == RelativeTargets \cup InvalidTargets \cup {"#pad"}

RobotsBodies == SeqsUpTo(RobotsLines, MaxRobotsLines)

LineLen(line) == IF line = "#pad" THEN RobotsContentCap ELSE 30

\* content.slice(0, 5000): the lines that start before the cap
RECURSIVE Slice(_, _)
Slice(content, room) ==
    IF content = <<>> \/ room <= 0 THEN <<>>
    ELSE <<content[1]>> \o Slice(Tail(content), room - LineLen(content[1]))

\* what the network gives back for one request
Resp(status, ctype) == [kind |-> "resp", status |-> status, ctype |-> ctype]
Abort == [kind |-> "abort", status |-> 0, ctype |-> ""]
NetError == [kind |-> "error", status |-> 0, ctype |-> ""]
\* no response has been received
NoOutcome == [kind |-> "none", status |-> 0, ctype |-> ""]

IsOk(o) == o.kind = "resp" /\ o.status >= 200 /\ o.status <= 299

RobotsOutcomes == {Resp(200, "text/plain"), Resp(404, ""), Resp(500, ""), Abort, NetError}

NoRobots == [exists |-> FALSE, content |-> <<>>, error |-> ""]

\* a robots check that treats 404 like every other status that is not 2xx
checkRobotsTxtStrict(o, body) ==
    IF IsOk(o) THEN [exists |-> TRUE, content |-> Slice(body, RobotsContentCap), error |-> ""]
    ELSE IF o.kind = "resp"
         THEN [NoRobots EXCEPT
                  !.error = "robots.txt check failed with status: " \o ToString(o.status)]
    ELSE [NoRobots EXCEPT !.error = "Error checking robots.txt"]

\* a robots check that reports no reason when the request fails
checkRobotsTxtSilent(o, body) ==
    IF IsOk(o) THEN [exists |-> TRUE, content |-> Slice(body, RobotsContentCap), error |-> ""]
    ELSE NoRobots

\* the value checkRobotsTxt returns for an outcome of its request
checkRobotsTxt(o, body) ==
    IF IsOk(o) THEN [exists |-> TRUE, content |-> Slice(body, RobotsContentCap), error |-> ""]
    ELSE IF o.kind = "resp" /\ o.status = 404 THEN NoRobots
    ELSE IF o.kind = "resp"
         THEN [NoRobots EXCEPT
                  !.error = "robots.txt check failed with status: " \o ToString(o.status)]
    ELSE IF o.kind = "abort"
         THEN [NoRobots EXCEPT !.error = "robots.txt check timed out"]
    ELSE [NoRobots EXCEPT !.error = "Error checking robots.txt"]

\* ---------------------------------------------------------------- sitemap
SiteUrl(origin, path) == [origin |-> origin, path |-> path]

Range(s) == {s[i] : i \in 1..Len(s)}

\* Set.prototype.add on an insertion-ordered set
SetAdd(s, x) == IF x \in Range(s) THEN s ELSE Append(s, x)

\* the Sitemap: directives of the robots content, resolved against the
\* origin and added in order of appearance; an unparsable target is skipped
RECURSIVE AddDirectives(_, _, _)
AddDirectives(cands, lines, origin) ==
    IF lines = <<>> THEN cands
    ELSE IF lines[1] \in RelativeTargets
         THEN AddDirectives(SetAdd(cands, SiteUrl(origin, lines[1])), Tail(lines), origin)
         ELSE AddDirectives(cands, Tail(lines), origin)

WellKnown(origin) == <<SiteUrl(origin, "/sitemap.xml"), SiteUrl(origin, "/sitemap_index.xml")>>

potentialSitemapUrls(origin, robotsAnalysis) ==
    IF robotsAnalysis.exists /\ robotsAnalysis.content # <<>>
    THEN AddDirectives(WellKnown(origin), robotsAnalysis.content, origin)
    ELSE WellKnown(origin)

ProbeOutcomes ==
    {Resp(200, "application/xml"), Resp(200, "text/html"), Resp(200, "application/json"),
     Resp(200, ""), Resp(404, ""), Resp(405, ""), Resp(501, ""), Abort, NetError}

\* contentType && (contentType.includes('xml') || contentType.includes('text'))
SitemapType(ctype) == ctype \in {"application/xml", "text/html", "text/plain"}

\* a fallback to GET after every HEAD response that is not 2xx
NeedsGetAnyFailure(o) == o.kind = "resp" /\ ~IsOk(o)

\* HEAD told that the method is not supported: retry with GET
NeedsGet(o) == o.kind = "resp" /\ ~IsOk(o) /\ o.status \in {405, 501}

\* a test that takes every 2xx response for a sitemap
FoundAnyOk(o) == IsOk(o)

\* response.ok and a content type that names xml or text
Found(o) == IsOk(o) /\ SitemapType(o.ctype)

NoSitemap == [exists |-> FALSE, url |-> SiteUrl(<<>>, ""), error |-> ""]
SitemapNotFound ==
    [NoSitemap EXCEPT !.error = "Sitemap not found in common locations or robots.txt"]

\* ------------------------------------------------------------------ state
VARIABLES
    entry,          \* "route": POST /analyze; "direct": performSeoAnalysis called
    url,            \* the URL string of the request
    page,           \* the document the target serves
    faulty,         \* the document check in which the parser library raises, or "none"
    robotsBody,     \* the robots.txt body the site serves
    pc,             \* position of the route / performSeoAnalysis
    timerArmed,     \* fetchAndParseUrl: the abort timer is set
    deadlinePassed, \* FETCH_TIMEOUT has elapsed since the page request
    pageFetched,    \* the URLs requested by fetchAndParseUrl
    pageResp,       \* what the page response declared and delivered
    fetched,        \* the value fetchAndParseUrl returned
    dom,            \* the parsed document $ shared by the checks
    started,        \* the document checks that have been started
    docResults,     \* the results of the document checks
    robotsRequests, \* number of robots.txt requests issued
    robotsUrls,     \* the robots.txt requests issued: URL and timer delay
    slotA,          \* Promise.all slot 0: "idle", "inflight", "done"
    robotsRespA,    \* what the network gave back for the request of slot 0
    robotsAnalysis, \* the result of slot 0
    slotB,          \* Promise.all slot 1: "idle", "robots", "head", "get", "done"
    robotsRespB,    \* what the network gave back for the request of slot 1
    robotsResult,   \* the robots result computed inside slot 1
    candidates,     \* checkSitemap: potentialSitemapUrls in iteration order
    cand,           \* checkSitemap: index of the candidate being probed
    probes,         \* the sitemap requests issued, in order
    probeResp,      \* checkSitemap: the response received last
    sitemap,        \* the result of slot 1
    result,         \* the value performSeoAnalysis returned
    response,       \* the HTTP response of the route
    saved,          \* the report document written by the route
    userAgents,     \* the module-level array USER_AGENTS
    other,          \* a second performSeoAnalysis call: position, $ and results
    store,          \* the reports collection: _id and userId of each document
    calls,          \* the requests to /api/reports/:id still to come
    apiResponse     \* the last response of GET or DELETE /api/reports/:id

vars ==
    <<entry, url, page, faulty, robotsBody, pc, timerArmed, deadlinePassed,
      pageFetched, pageResp, fetched, dom, started, docResults, robotsRequests,
      robotsUrls, slotA, robotsRespA, robotsAnalysis, slotB, robotsRespB,
      robotsResult, candidates, cand, probes, probeResp, sitemap, result,
      response, saved, userAgents, other, store, calls, apiResponse>>

inputVars == <<entry, url, page, faulty, robotsBody>>
fetchVars == <<timerArmed, deadlinePassed, pageFetched, pageResp, fetched>>
docVars == <<dom, started, docResults>>
robotsVars == <<robotsRequests, robotsUrls>>
slotAVars == <<slotA, robotsRespA, robotsAnalysis>>
slotBVars == <<slotB, robotsRespB, robotsResult, candidates, cand, probes, probeResp, sitemap>>
routeVars == <<response, saved>>
sideVars == <<userAgents, other, calls, apiResponse>>

NoFetch == [done |-> FALSE, error |-> "", status |-> 0, finalUrl |-> <<>>]
NoPageResp == [status |-> 0, ctype |-> "", declaredOver |-> FALSE, receivedOver |-> FALSE]

NoDocResults ==
    [https |-> checkHttps(<<"http://">>),
     metaTags |-> analyzeMetaTags(<<>>),
     headings |-> analyzeHeadings(<<>>),
     images |-> analyzeImages(<<>>),
     content |-> analyzeContent(<<>>),
     mobileFriendly |-> checkMobileFriendliness(<<>>),
     schemaMarkup |-> checkSchemaMarkup(<<>>)]

NoResult ==
    [returned |-> FALSE, error |-> "", status |-> 0, hasChecks |-> FALSE,
     robotsTxt |-> NoRobots, sitemap |-> NoSitemap, doc |-> NoDocResults]

NoResponse == [sent |-> FALSE, status |-> 0, error |-> ""]
NoSaved == [written |-> FALSE, status |-> "", analysisStatus |-> ""]

\* the user agents of USER_AGENTS, by the browser each names
USER_AGENTS == <<"Chrome", "Googlebot", "iPhone Safari", "Android Chrome">>

\* the values getRandomUserAgent may return: any element of the array
getRandomUserAgent(agents) == {agents[i] : i \in 1..Len(agents)}

NoOther == [pc |-> "off", dom |-> <<>>, doc |-> NoDocResults]

\* the user of the POST /analyze request and the _id its save is given
RouteUser == "alice"
NewReportId == "r2"

NoApiResponse == [method |-> "", userId |-> "", id |-> "", status |-> 0, report |-> {}]

\* the requests (entry point and URL) one specification starts from
Requests(urls) == {"route", "direct"} \X urls

InitAnalysis(requests, pages, faults, bodies) ==
    /\ \E r \in requests : entry = r[1] /\ url = r[2]
    /\ page \in pages
    /\ faulty \in faults
    /\ robotsBody \in bodies
    /\ pc = IF entry = "route" THEN "received" ELSE "validating"
    /\ timerArmed = FALSE
    /\ deadlinePassed = FALSE
    /\ pageFetched = <<>>
    /\ pageResp = NoPageResp
    /\ fetched = NoFetch
    /\ dom = <<>>
    /\ started = {}
    /\ docResults = NoDocResults
    /\ robotsRequests = 0
    /\ robotsUrls = <<>>
    /\ slotA = "idle"
    /\ robotsRespA = NoOutcome
    /\ robotsAnalysis = NoRobots
    /\ slotB = "idle"
    /\ robotsRespB = NoOutcome
    /\ robotsResult = NoRobots
    /\ candidates = <<>>
    /\ cand = 0
    /\ probes = <<>>
    /\ probeResp = NoOutcome
    /\ sitemap = NoSitemap
    /\ result = NoResult
    /\ response = NoResponse
    /\ saved = NoSaved
    /\ userAgents = USER_AGENTS

\* one analysis request on a server that runs no other analysis and gets no
\* request for a stored report
InitWith(requests, pages, faults, bodies) ==
    /\ InitAnalysis(requests, pages, faults, bodies)
    /\ other = NoOther
    /\ store = {}
    /\ calls = 0
    /\ apiResponse = NoApiResponse

\* --------------------------------------------------- fetchAndParseUrl
FetchError(msg, status) == [done |-> TRUE, error |-> msg, status |-> status, finalUrl |-> <<>>]

PageTypes == {"text/html; charset=utf-8", "application/json", "text/plain", ""}

\* contentType.includes('text/html')
IsHtml(ctype) == ctype = "text/html; charset=utf-8"

\* an error message that does not name the content type that was seen
InvalidContentTypePlain(ctype) == "Invalid content type. Expected text/html."

\* `Invalid content type: ${contentType || 'Not specified'}. Expected text/html.`
InvalidContentType(ctype) ==
    "Invalid content type: " \o (IF ctype = "" THEN "Not specified" ELSE ctype)
        \o ". Expected text/html."

\* the declared Content-Length (-1: no header) and the byte counts a body can have
DeclaredLengths == {-1, 100, MAX_CONTENT_SIZE + 1}
BodySizes == {100, MAX_CONTENT_SIZE, MAX_CONTENT_SIZE + 1}

\* the byte count n is above the 5 MB cap
OverCap(n) == n > MAX_CONTENT_SIZE

\* contentLength && parseInt(contentLength, 10) > MAX_CONTENT_SIZE
DeclaredTooLarge(declared) == declared # -1 /\ declared > MAX_CONTENT_SIZE

\* a fetch that trusts the declared length and never looks at the bytes read
BodyTooLargeHeaderOnly(received) == FALSE

\* node-fetch's size option raises max-size once more than MAX_CONTENT_SIZE
\* bytes were read; htmlBuffer.byteLength > MAX_CONTENT_SIZE after the read
BodyTooLarge(received) == received > MAX_CONTENT_SIZE

\* response.url after redirects
FinalUrls(fetchUrl) == {fetchUrl, <<"https://", "h">>}

\* the route's own validation, then the call of performSeoAnalysis
RouteAnalyze ==
    /\ entry = "route" /\ pc = "received"
    /\ IF url = <<>>
       THEN /\ response' = [sent |-> TRUE, status |-> 400, error |-> "URL is required"]
            /\ pc' = "responded"
       ELSE IF ~UrlParses(NormalizeUrl(url))
       THEN /\ response' = [sent |-> TRUE, status |-> 400, error |-> "Invalid URL format"]
            /\ pc' = "responded"
       ELSE /\ pc' = "validating"
            /\ UNCHANGED response
    /\ UNCHANGED <<inputVars, sideVars, store, fetchVars, docVars, robotsVars, slotAVars, slotBVars,
                   result, saved>>

\* a validation that never parses the URL
urlAcceptedUnchecked(initialUrl) == TRUE

\* new URL(initialUrl) in the try block of performSeoAnalysis does not raise
urlAccepted(initialUrl) == UrlParses(initialUrl)

\* performSeoAnalysis up to its first await: validation, then the request
\* fetchAndParseUrl issues under its abort timer
PerformSeoAnalysis ==
    /\ pc = "validating"
    /\ LET initialUrl == NormalizeUrl(url)
       IN  IF ~urlAccepted(initialUrl)
           THEN /\ result' = [NoResult EXCEPT !.returned = TRUE,
                                  !.error = "Invalid URL format provided.",
                                  !.status = 400]
                /\ pc' = "returned"
                /\ UNCHANGED <<timerArmed, pageFetched>>
           ELSE /\ \E userAgent \in getRandomUserAgent(userAgents) :
                      pageFetched' = Append(pageFetched, NormalizeUrl(initialUrl))
                /\ timerArmed' = TRUE
                /\ pc' = "headers"
                /\ UNCHANGED result
    /\ UNCHANGED <<inputVars, sideVars, store, deadlinePassed, pageResp, fetched, docVars, robotsVars,
                   slotAVars, slotBVars, routeVars>>

\* the response headers arrive: the timer is cleared, then status, content
\* type and declared length are checked
PageHeaders ==
    /\ pc = "headers"
    /\ \E status \in {200, 404}, ctype \in PageTypes, declared \in DeclaredLengths,
          finalUrl \in FinalUrls(pageFetched[Len(pageFetched)]) :
          /\ timerArmed' = FALSE
          /\ pageResp' = [pageResp EXCEPT !.status = status, !.ctype = ctype,
                                          !.declaredOver = OverCap(declared)]
          /\ IF ~(status >= 200 /\ status <= 299)
             THEN /\ fetched' = FetchError("HTTP error! Status", status)
                  /\ pc' = "fetched"
             ELSE IF ~IsHtml(ctype)
             THEN /\ fetched' = FetchError(InvalidContentType(ctype), status)
                  /\ pc' = "fetched"
             ELSE IF DeclaredTooLarge(declared)
             THEN /\ fetched' = FetchError("Declared content length exceeds size limit of 5 MB", 413)
                  /\ pc' = "fetched"
             ELSE /\ fetched' = [NoFetch EXCEPT !.status = status, !.finalUrl = finalUrl]
                  /\ pc' = "body"
    /\ UNCHANGED <<inputVars, sideVars, store, deadlinePassed, pageFetched, docVars, robotsVars,
                   slotAVars, slotBVars, result, routeVars>>

\* response.buffer() ends: the body was read, or node-fetch raised max-size
\* because more than MAX_CONTENT_SIZE bytes came, or the transport failed
PageBody ==
    /\ pc = "body"
    /\ \/ \E received \in BodySizes :
             /\ pageResp' = [pageResp EXCEPT !.receivedOver = OverCap(received)]
             /\ IF BodyTooLarge(received)
                THEN /\ fetched' = FetchError("Content exceeds size limit of 5 MB", 413)
                     /\ UNCHANGED dom
                ELSE /\ fetched' = [fetched EXCEPT !.done = TRUE]
                     /\ dom' = page
       \/ /\ fetched' = FetchError("Failed to fetch URL", 500)
          /\ UNCHANGED <<pageResp, dom>>
    /\ pc' = "fetched"
    /\ UNCHANGED <<inputVars, sideVars, store, timerArmed, deadlinePassed, pageFetched, started, docResults,
                   robotsVars, slotAVars, slotBVars, result, routeVars>>

\* the request fails before any response: DNS failure or another transport error
PageError ==
    /\ pc = "headers"
    /\ \E e \in {"ENOTFOUND", "other"} :
          fetched' = IF e = "ENOTFOUND"
                     THEN FetchError("Could not resolve domain name", 404)
                     ELSE FetchError("Failed to fetch URL", 500)
    /\ timerArmed' = FALSE
    /\ pc' = "fetched"
    /\ UNCHANGED <<inputVars, sideVars, store, deadlinePassed, pageFetched, pageResp, docVars, robotsVars,
                   slotAVars, slotBVars, result, routeVars>>

\* FETCH_TIMEOUT elapses while the page request is in flight; a timer that
\* is still set aborts the request
Deadline ==
    /\ pc \in {"headers", "body"}
    /\ ~deadlinePassed
    /\ deadlinePassed' = TRUE
    /\ IF timerArmed
       THEN /\ fetched' = FetchError("Request timed out after 15 seconds", 408)
            /\ timerArmed' = FALSE
            /\ pc' = "fetched"
       ELSE UNCHANGED <<fetched, timerArmed, pc>>
    /\ UNCHANGED <<inputVars, sideVars, store, pageFetched, pageResp, docVars, robotsVars, slotAVars,
                   slotBVars, result, routeVars>>

\* ------------------------------------------------- performSeoAnalysis
\* an error test that only knows the timeout
HasFetchErrorTimeoutOnly(f) == f.error # "" /\ f.status = 408

\* const { ..., error: fetchError } = await fetchAndParseUrl(...); if (fetchError)
HasFetchError(f) == f.error # ""

\* the elements analyzeContent removes from the shared document
contentRemove(doc) == Remove(doc, NonContentTags)

\* the index in CheckOrder of the check that raises (8: none does)
ThrowAt(f) == IF f = "none" THEN Len(CheckOrder) + 1 ELSE IndexOf(f)

Ran(name, f) == IndexOf(name) < ThrowAt(f)

\* the document the checks after analyzeContent see
DomAfter(doc, f) == IF Ran("content", f) THEN contentRemove(doc) ELSE doc

\* the array elements 2..8 of the Promise.all call, evaluated in order on
\* the shared document until one raises
RunDocChecks(doc, finalUrl, f) ==
    [https |-> IF Ran("https", f) THEN checkHttps(finalUrl) ELSE NoDocResults.https,
     metaTags |-> IF Ran("metaTags", f) THEN analyzeMetaTags(doc) ELSE NoDocResults.metaTags,
     headings |-> IF Ran("headings", f) THEN analyzeHeadings(doc) ELSE NoDocResults.headings,
     images |-> IF Ran("images", f) THEN analyzeImages(doc) ELSE NoDocResults.images,
     content |-> IF Ran("content", f) THEN analyzeContent(doc) ELSE NoDocResults.content,
     mobileFriendly |-> IF Ran("mobileFriendly", f)
                        THEN checkMobileFriendliness(DomAfter(doc, f))
                        ELSE NoDocResults.mobileFriendly,
     schemaMarkup |-> IF Ran("schemaMarkup", f)
                      THEN checkSchemaMarkup(DomAfter(doc, f))
                      ELSE NoDocResults.schemaMarkup]

StartedChecks(f) == {c \in DocChecks : IndexOf(c) <= ThrowAt(f)}

\* one call of checkRobotsTxt issues one request
IssueRobots(n) == n + 1

\* a site URL taken from the URL that was requested
siteUrlOfRequest(finalUrl, initialUrl) == initialUrl

\* const siteUrlForChecks = new URL(finalUrl)
siteUrlForChecks(finalUrl, initialUrl) == finalUrl

\* the request checkRobotsTxt issues: /robots.txt on the origin of siteUrl,
\* under an abort timer of FETCH_TIMEOUT / 2
RobotsRequest(siteUrl) ==
    [url |-> SiteUrl(Origin(siteUrl), "/robots.txt"), deadline |-> CheckTimeout]

\* a document kept in one module-level variable: the one parsed last
lastParsedDocument(own, others) == IF others = <<>> THEN own ELSE others

\* const { html, $, ... } = await fetchAndParseUrl(initialUrl): the document
\* the checks of a call read is the one its own fetchAndParseUrl call returned
parsedDocument(own, others) == own

\* performSeoAnalysis after the page fetch: the fetch error return, the catch
\* block when new URL(finalUrl) raises, or the
\* synchronous part of the fan-out (the first robots request, the sitemap slot
\* with its own robots request, the document checks in order) and the catch
\* block when a document check raises
AfterFetch ==
    /\ pc = "fetched"
    /\ IF HasFetchError(fetched)
       THEN /\ result' = [NoResult EXCEPT !.returned = TRUE,
                              !.error = fetched.error,
                              !.status = IF fetched.status # 0 THEN fetched.status ELSE 500]
            /\ pc' = "returned"
            /\ UNCHANGED <<docVars, robotsVars, slotA, slotB>>
       ELSE IF ~UrlParses(siteUrlForChecks(fetched.finalUrl, NormalizeUrl(url)))
       THEN /\ result' = [NoResult EXCEPT !.returned = TRUE,
                              !.error = "Analysis failed after fetching content",
                              !.status = fetched.status]
            /\ pc' = "returned"
            /\ UNCHANGED <<docVars, robotsVars, slotA, slotB>>
       ELSE /\ robotsRequests' = IssueRobots(IssueRobots(robotsRequests))
            /\ LET siteUrl == siteUrlForChecks(fetched.finalUrl, NormalizeUrl(url))
               IN  robotsUrls' =
                       robotsUrls \o <<RobotsRequest(siteUrl), RobotsRequest(siteUrl)>>
            /\ slotA' = "inflight"
            /\ slotB' = "robots"
            /\ started' = StartedChecks(faulty)
            /\ LET doc == parsedDocument(dom, other.dom)
               IN  /\ dom' = DomAfter(doc, faulty)
                   /\ docResults' = RunDocChecks(doc, fetched.finalUrl, faulty)
            /\ IF faulty # "none"
               THEN /\ result' = [NoResult EXCEPT !.returned = TRUE,
                                      !.error = "Analysis failed after fetching content",
                                      !.status = fetched.status]
                    /\ pc' = "returned"
               ELSE /\ pc' = "checking"
                    /\ UNCHANGED result
    /\ UNCHANGED <<inputVars, sideVars, store, fetchVars, robotsRespA, robotsAnalysis, robotsRespB,
                   robotsResult, candidates, cand, probes, probeResp, sitemap, routeVars>>

\* slot 0: the robots.txt request of line 506 ends
RobotsDoneA ==
    /\ slotA = "inflight"
    /\ \E o \in RobotsOutcomes :
          /\ robotsRespA' = o
          /\ robotsAnalysis' = checkRobotsTxt(o, robotsBody)
    /\ slotA' = "done"
    /\ UNCHANGED <<inputVars, sideVars, store, pc, fetchVars, docVars, robotsVars, slotBVars, result,
                   routeVars>>

\* one sitemap request, under its own abort timer of FETCH_TIMEOUT / 2
Probe(method, sitemapUrl) ==
    [method |-> method, url |-> sitemapUrl, deadline |-> CheckTimeout]

\* a loop that stays on the candidate it has just probed
SameCandidate(i) == IF i = 0 THEN 1 ELSE i

\* for (const sitemapUrl of potentialSitemapUrls): the next element
NextCandidate(i) == i + 1

\* checkSitemap moves to the candidate after cand: its HEAD request, or the
\* final "not found" result when the candidates are used up
NextProbe(cs, i) ==
    IF NextCandidate(i) <= Len(cs)
    THEN /\ cand' = NextCandidate(i)
         /\ probes' = Append(probes, Probe("HEAD", cs[NextCandidate(i)]))
         /\ slotB' = "head"
         /\ UNCHANGED sitemap
    ELSE /\ sitemap' = SitemapNotFound
         /\ slotB' = "done"
         /\ UNCHANGED <<cand, probes>>

\* slot 1: the robots.txt request of line 509 ends and checkSitemap starts
RobotsDoneB ==
    /\ slotB = "robots"
    /\ \E o \in RobotsOutcomes :
          LET r == checkRobotsTxt(o, robotsBody)
              siteUrl == siteUrlForChecks(fetched.finalUrl, NormalizeUrl(url))
              cs == potentialSitemapUrls(Origin(siteUrl), r)
          IN  /\ robotsRespB' = o
              /\ robotsResult' = r
              /\ candidates' = cs
              /\ NextProbe(cs, 0)
    /\ UNCHANGED probeResp
    /\ UNCHANGED <<inputVars, sideVars, store, pc, fetchVars, docVars, robotsVars, slotAVars, result,
                   routeVars>>

SitemapFound(i) ==
    /\ sitemap' = [exists |-> TRUE, url |-> candidates[i], error |-> ""]
    /\ slotB' = "done"
    /\ UNCHANGED <<cand, probes>>

\* the HEAD request for the current candidate ends
SitemapHead ==
    /\ slotB = "head"
    /\ \E o \in ProbeOutcomes :
          /\ probeResp' = o
          /\ IF NeedsGet(o)
             THEN /\ probes' = Append(probes, Probe("GET", candidates[cand]))
                  /\ slotB' = "get"
                  /\ UNCHANGED <<cand, sitemap>>
             ELSE IF Found(o) THEN SitemapFound(cand)
             ELSE NextProbe(candidates, cand)
    /\ UNCHANGED <<inputVars, sideVars, store, pc, fetchVars, docVars, robotsVars, slotAVars,
                   robotsRespB, robotsResult, candidates, result, routeVars>>

\* the fallback GET request for the current candidate ends
SitemapGet ==
    /\ slotB = "get"
    /\ \E o \in ProbeOutcomes :
          /\ probeResp' = o
          /\ IF Found(o) THEN SitemapFound(cand) ELSE NextProbe(candidates, cand)
    /\ UNCHANGED <<inputVars, sideVars, store, pc, fetchVars, docVars, robotsVars, slotAVars,
                   robotsRespB, robotsResult, candidates, result, routeVars>>

\* a join that resumes on the first slot to be fulfilled
PromiseRace(a, b) == a = "done" \/ b = "done"

\* await Promise.all([...]) resumes: every slot is fulfilled
PromiseAll(a, b) == a = "done" /\ b = "done"

\* the report is assembled from the slots and returned
AssembleReport ==
    /\ pc = "checking"
    /\ PromiseAll(slotA, slotB)
    /\ result' = [returned |-> TRUE, error |-> "", status |-> fetched.status,
                  hasChecks |-> TRUE, robotsTxt |-> robotsAnalysis, sitemap |-> sitemap,
                  doc |-> docResults]
    /\ pc' = "returned"
    /\ UNCHANGED <<inputVars, sideVars, store, fetchVars, docVars, robotsVars, slotAVars, slotBVars,
                   routeVars>>

\* ------------------------------------------------------ POST /analyze
\* status: analysisResult.error ? 'completed_with_errors' : 'completed'
ReportStatus(r) == IF r.error # "" THEN "completed_with_errors" ELSE "completed"

\* an answer that reports every failed analysis as an internal error
ResponseStatusAlways500(r) == 500

\* res.status(analysisResult.status || 500)
ResponseStatus(r) == IF r.status # 0 THEN r.status ELSE 500

\* the message of the route's outer catch block
UnexpectedError == "An unexpected error occurred during analysis."

\* the message of the answer when reportToSave.save() is rejected
SaveFailedError == "Analysis completed but failed to save the report."

\* the schema default of analysisStatus; the route sets the path "status",
\* which the schema does not have, so the default is what is stored
analysisStatusDefault == "pending"

\* the values the schema admits for analysisStatus
analysisStatusEnum == {"pending", "processing", "completed", "failed"}

\* the route after performSeoAnalysis returned: the error answer, or the save
\* of the report (which the database may refuse) and the answer
RouteRespond ==
    /\ entry = "route" /\ pc = "returned"
    /\ IF result.error # "" /\ ~result.hasChecks
       THEN /\ response' = [sent |-> TRUE,
                            status |-> ResponseStatus(result),
                            error |-> result.error]
            /\ UNCHANGED <<saved, store>>
       ELSE \/ /\ saved' = [written |-> TRUE, status |-> ReportStatus(result),
                            analysisStatus |-> analysisStatusDefault]
               /\ store' = store \cup {[id |-> NewReportId, userId |-> RouteUser]}
               /\ response' = [sent |-> TRUE, status |-> 200, error |-> ""]
            \/ /\ response' = [sent |-> TRUE, status |-> 500, error |-> SaveFailedError]
               /\ UNCHANGED <<saved, store>>
    /\ pc' = "responded"
    /\ UNCHANGED <<inputVars, sideVars, fetchVars, docVars, robotsVars, slotAVars, slotBVars,
                   result>>

\* ------------------------------------------ a second, concurrent analysis
\* the page and the final URL of the second analysis
OtherPage == <<Elem("h1", "B"), Elem("script", "ok:2")>>
OtherFinalUrl == <<"http://", "h">>

\* the second call's fetchAndParseUrl returns its own parsed document
OtherFetchAndParse ==
    /\ other.pc = "start"
    /\ other' = [other EXCEPT !.pc = "parsed", !.dom = OtherPage]
    /\ UNCHANGED <<inputVars, pc, fetchVars, docVars, robotsVars, slotAVars, slotBVars,
                   result, routeVars, userAgents, store, calls, apiResponse>>

\* the second call evaluates its document checks on its own document
OtherDocChecks ==
    /\ other.pc = "parsed"
    /\ other' = [pc |-> "done",
                 dom |-> DomAfter(other.dom, "none"),
                 doc |-> RunDocChecks(other.dom, OtherFinalUrl, "none")]
    /\ UNCHANGED <<inputVars, pc, fetchVars, docVars, robotsVars, slotAVars, slotBVars,
                   result, routeVars, userAgents, store, calls, apiResponse>>

\* ------------------------------------------------- /api/reports/:id
Users == {"alice", "bob"}

\* the ids of requests: two of the ObjectId format ("r2" is the id of no
\* report until the route has saved one) and a malformed one
ObjectIds == {"r1", NewReportId}
RequestIds == ObjectIds \cup {"zz"}

\* mongoose.Types.ObjectId.isValid(reportId)
isValid(reportId) == reportId \in ObjectIds

\* a query filter without the userId condition
OwnedByAnyone(report, userId) == TRUE

\* the userId condition of the query filter { _id: reportId, userId }
OwnedBy(report, userId) == report.userId = userId

\* Report.findOne({ _id: reportId, userId }): the matching documents (_id is
\* unique, so at most one)
findOne(reports, reportId, userId) ==
    {r \in reports : r.id = reportId /\ OwnedBy(r, userId)}

ApiResponse(method, userId, reportId, status, report) ==
    [method |-> method, userId |-> userId, id |-> reportId, status |-> status,
     report |-> report]

\* router.get('/:id'): 400 for a malformed id, 404 when the query finds
\* nothing, the report otherwise; 500 when the query is rejected
GetReport ==
    /\ calls > 0
    /\ calls' = calls - 1
    /\ \E userId \in Users, reportId \in RequestIds :
          IF ~isValid(reportId)
          THEN apiResponse' = ApiResponse("GET", userId, reportId, 400, {})
          ELSE \/ LET report == findOne(store, reportId, userId)
                  IN  apiResponse' =
                          ApiResponse("GET", userId, reportId,
                                      IF report = {} THEN 404 ELSE 200, report)
               \/ apiResponse' = ApiResponse("GET", userId, reportId, 500, {})
    /\ UNCHANGED <<inputVars, pc, fetchVars, docVars, robotsVars, slotAVars, slotBVars,
                   result, routeVars, userAgents, other, store>>

\* router.delete('/:id'): 400 for a malformed id, 404 when findOneAndDelete
\* finds nothing, otherwise the document is deleted; 500 when the query is
\* rejected
DeleteReport ==
    /\ calls > 0
    /\ calls' = calls - 1
    /\ \E userId \in Users, reportId \in RequestIds :
          IF ~isValid(reportId)
          THEN /\ apiResponse' = ApiResponse("DELETE", userId, reportId, 400, {})
               /\ UNCHANGED store
          ELSE \/ LET report == findOne(store, reportId, userId)
                  IN  /\ store' = store \ report
                      /\ apiResponse' =
                             ApiResponse("DELETE", userId, reportId,
                                         IF report = {} THEN 404 ELSE 200, report)
               \/ /\ apiResponse' = ApiResponse("DELETE", userId, reportId, 500, {})
                  /\ UNCHANGED store
    /\ UNCHANGED <<inputVars, pc, fetchVars, docVars, robotsVars, slotAVars, slotBVars,
                   result, routeVars, userAgents, other>>

Next ==
    \/ RouteAnalyze
    \/ PerformSeoAnalysis
    \/ PageHeaders
    \/ PageBody
    \/ PageError
    \/ Deadline
    \/ AfterFetch
    \/ RobotsDoneA
    \/ RobotsDoneB
    \/ SitemapHead
    \/ SitemapGet
    \/ AssembleReport
    \/ RouteRespond
    \/ OtherFetchAndParse
    \/ OtherDocChecks
    \/ GetReport
    \/ DeleteReport

\* ------------------------------------------------------ specifications
\* a page with a heading, navigation, a paragraph and a JSON-LD block
SamplePage == <<Elem("h1", "A"), Elem("nav", "N"), Elem("p", "W"), Elem("script", "ok:1")>>

\* Spec: every robots.txt body and every network outcome, for a few requests
SampleRequests ==
    {<<"route", <<>>>>, <<"route", <<"%">>>>, <<"route", <<"h">>>>,
     <<"direct", <<"%">>>>, <<"direct", <<"https://", "h">>>>}

\* the reports stored by earlier saves
InitialReports == {[id |-> "r1", userId |-> "bob"]}

\* a server on which a second analysis is about to run and requests for
\* stored reports are to come
InitServer(requests, others, reports, n) ==
    /\ InitAnalysis(requests, {SamplePage}, {"none"}, {<<>>})
    /\ other = [NoOther EXCEPT !.pc = others]
    /\ store = reports
    /\ calls = n
    /\ apiResponse = NoApiResponse

\* a request without URL on such a server
InitSession == InitServer({<<"route", <<>>>>}, "start", InitialReports, MaxCalls)

Init ==
    \/ InitWith(SampleRequests, {SamplePage}, {"none", "metaTags", "schemaMarkup"},
                RobotsBodies)
    \/ InitSession

Spec == Init /\ [][Next]_vars

\* SpecUrl: every URL string, for one site
InitUrl ==
    \/ InitWith(Requests(Urls), {SamplePage}, {"none"}, {<<>>})
    \/ InitSession

SpecUrl == InitUrl /\ [][Next]_vars

\* SpecLive: one site; every sitemap request comes to an end, with a
\* response, with a transport failure, or aborted by its own timer after
\* FETCH_TIMEOUT / 2
InitLive ==
    \/ InitWith({<<"route", <<"h">>>>}, {SamplePage}, {"none"}, {<<"/custom.xml">>})
    \/ InitSession

SpecLive == InitLive /\ [][Next]_vars /\ WF_vars(SitemapHead) /\ WF_vars(SitemapGet)

\* ------------------------------------------------------------ properties
PageFetchSucceeded == fetched.done /\ fetched.error = ""

\* some check result of the returned report carries an error
SomeCheckError(r) ==
    \/ r.robotsTxt.error # ""
    \/ r.sitemap.error # ""
    \/ r.doc.https.error # ""

\* C1: after a successful page fetch, a failure inside one check leaves the
\* other checks in the returned result: what performSeoAnalysis returns holds
\* the checks, and the result of every document check that was computed.
C1_FailureKeepsOtherChecks ==
    (result.returned /\ PageFetchSucceeded)
        => (result.hasChecks /\ result.doc = docResults)

\* C2: the status written with a report is "completed" exactly when no check
\* result carries an error and "completed_with_errors" otherwise.
C2_StatusTellsCheckErrors ==
    (saved.written /\ faulty = "none") =>
        /\ (saved.status = "completed") <=> ~SomeCheckError(result)
        /\ (saved.status = "completed_with_errors") <=> SomeCheckError(result)

\* C3: one analysis issues at most one robots.txt request.
C3_RobotsRequestedOnce == (faulty = "none") => robotsRequests <= 1

\* the URLs of the Sitemap: directives checkSitemap was given
DirectiveUrls ==
    {SiteUrl(Origin(fetched.finalUrl), robotsResult.content[i]) :
        i \in {j \in 1..Len(robotsResult.content) :
                  robotsResult.content[j] \in RelativeTargets}}

\* C4: a well-known path that no directive names is probed only after every
\* URL named by a Sitemap: directive has been probed.
C4_DirectivesProbedFirst ==
    (faulty = "none") => \A i \in 1..Len(probes) :
        (probes[i].url \in Range(WellKnown(Origin(fetched.finalUrl))) \ DirectiveUrls)
            => \A d \in DirectiveUrls : \E j \in 1..(i - 1) : probes[j].url = d

\* C5: the shared parsed document stays the document parsed from the page,
\* whatever checks have run.
C5_DocumentNeverMutated == PageFetchSucceeded => dom = page

\* C6: once the deadline has passed with the page request in flight, the
\* request has been aborted and fetchAndParseUrl has yielded the 408 error.
C6_StallAbortedAtDeadline ==
    (deadlinePassed /\ faulty = "none") => (fetched.done /\ fetched.status = 408)

\* C7: a page fetch error is returned as the result's error, without checks,
\* and no robots.txt request, sitemap probe or document check is started.
C7_FetchErrorStartsNothing ==
    (fetched.error # "") =>
        /\ robotsRequests = 0 /\ probes = <<>> /\ started = {}
        /\ slotA = "idle" /\ slotB = "idle"
        /\ result.returned =>
              (result.error = fetched.error /\ ~result.hasChecks
               /\ result.status = fetched.status)

C7_Witness ==
    /\ result.returned /\ fetched.error = "Request timed out after 15 seconds"
    /\ result.error = fetched.error /\ robotsRequests = 0

\* C8: a URL that does not parse after scheme normalisation never causes a
\* network request; performSeoAnalysis returns the 400 "Invalid URL" error
\* without checks and the route answers 400.
C8_InvalidUrlNoNetwork ==
    ~UrlParses(NormalizeUrl(url)) =>
        /\ pageFetched = <<>> /\ robotsRequests = 0 /\ probes = <<>>
        /\ result.returned =>
              (result.status = 400 /\ result.error = "Invalid URL format provided."
               /\ ~result.hasChecks)
        /\ response.sent => response.status = 400
        /\ (entry = "route") => ~result.returned

C8_Witness ==
    /\ entry = "direct" /\ url = <<"http://", "%">>
    /\ result.returned /\ result.status = 400 /\ pageFetched = <<>>

SizeLimitErrors ==
    {"Declared content length exceeds size limit of 5 MB",
     "Content exceeds size limit of 5 MB"}

\* C9 as stated: every page response whose declared or received length is
\* above the cap ends the analysis with a size-limit error, status 413 and
\* no checks.
C9_OverCapAlways413 ==
    (result.returned /\ faulty = "none"
     /\ (pageResp.declaredOver \/ pageResp.receivedOver))
        => (result.status = 413 /\ result.error \in SizeLimitErrors /\ ~result.hasChecks)

\* C9 amended: a page response with a 2xx status and a text/html content
\* type whose declared or received length is above the cap ends the analysis
\* with a size-limit error, status 413 and no checks.
C9_OverCapHtml413 ==
    (result.returned /\ pageResp.status \in 200..299
     /\ pageResp.ctype = "text/html; charset=utf-8"
     /\ (pageResp.declaredOver \/ pageResp.receivedOver))
        => (result.status = 413 /\ result.error \in SizeLimitErrors /\ ~result.hasChecks
            /\ started = {} /\ robotsRequests = 0)

C9_Witness ==
    /\ result.returned /\ pageResp.receivedOver /\ ~pageResp.declaredOver
    /\ result.status = 413

\* C10: a result with checks is returned only when both network slots and
\* every document check have finished, and it holds their results.
C10_ReportAfterAllBranches ==
    result.hasChecks =>
        /\ slotA = "done" /\ slotB = "done" /\ started = DocChecks
        /\ result.robotsTxt = robotsAnalysis
        /\ result.sitemap = sitemap
        /\ result.doc = docResults

C10_Witness ==
    /\ result.hasChecks /\ slotA = "done" /\ slotB = "done"
    /\ Len(probes) >= 3

\* C11: a report that was saved and returned to the caller carries a final
\* analysis status: never "pending" and never "processing".
C11_SavedReportStatusFinal ==
    (saved.written /\ response.sent /\ response.status = 200)
        => (saved.analysisStatus \in analysisStatusEnum \ {"pending", "processing"})

\* C12: the route answers a URL that is missing or does not parse with 400,
\* a page request that its timer aborted with 408, and a page whose declared
\* or received length made the fetch fail on the size limit with 413.
C12_RouteErrorStatus ==
    (entry = "route" /\ response.sent) =>
        /\ (url = <<>> \/ ~UrlParses(NormalizeUrl(url))) => response.status = 400
        /\ (deadlinePassed /\ pageResp.status = 0) => response.status = 408
        /\ (/\ pageResp.status \in 200..299
            /\ pageResp.ctype = "text/html; charset=utf-8"
            /\ (pageResp.declaredOver \/ pageResp.receivedOver))
               => response.status = 413

C12_Witness ==
    /\ entry = "route" /\ response.sent /\ response.status = 408
    /\ deadlinePassed /\ pageResp.status = 0
    /\ response.error = "Request timed out after 15 seconds"

\* C13: when the analysis returned a report with checks and the save is
\* refused, the route answers 500 with the message "Analysis completed but
\* failed to save the report.", which no answer to a failed analysis carries,
\* and the returned analysis result is still the assembled report, without an
\* error.
C13_SaveFailureDistinct ==
    response.sent =>
        /\ (result.hasChecks /\ ~saved.written) =>
              /\ response.status = 500
              /\ response.error = "Analysis completed but failed to save the report."
              /\ result.returned /\ result.error = ""
              /\ result.status = fetched.status
              /\ result.robotsTxt = robotsAnalysis
              /\ result.sitemap = sitemap
              /\ result.doc = docResults
        /\ ~result.hasChecks =>
              /\ response.error # "Analysis completed but failed to save the report."
              /\ response.error # ""
              /\ ~saved.written

C13_Witness ==
    /\ response.sent /\ result.hasChecks /\ ~saved.written
    /\ response.status = 500
    /\ result.robotsTxt.exists /\ result.sitemap.exists

\* C14: when a robots.txt request is answered 404, checkRobotsTxt returns
\* exists = false with no error and no content; the report carries that
\* result, has no error of its own, and is stored as "completed".
C14_RobotsAbsentNoError ==
    /\ (robotsRespA.kind = "resp" /\ robotsRespA.status = 404) =>
          /\ ~robotsAnalysis.exists
          /\ robotsAnalysis.error = ""
          /\ robotsAnalysis.content = <<>>
          /\ result.hasChecks =>
                (result.robotsTxt.error = "" /\ ~result.robotsTxt.exists /\ result.error = "")
          /\ saved.written => saved.status = "completed"
    /\ (robotsRespB.kind = "resp" /\ robotsRespB.status = 404) =>
          (~robotsResult.exists /\ robotsResult.error = "" /\ robotsResult.content = <<>>)

C14_Witness ==
    /\ robotsRespA.kind = "resp" /\ robotsRespA.status = 404
    /\ saved.written /\ result.hasChecks /\ ~result.robotsTxt.exists
    /\ response.sent /\ response.status = 200

\* the robots.txt request ended with a status that is neither 2xx nor 404,
\* was aborted by its timer, or failed in transport
RobotsFailed(o) ==
    \/ o.kind \in {"abort", "error"}
    \/ o.kind = "resp" /\ o.status \notin 200..299 /\ o.status # 404

\* C15: a robots.txt request runs under a timer of half the page-fetch
\* timeout; when it ends with a status that is neither 2xx nor 404, is
\* aborted by the timer or fails in transport, checkRobotsTxt returns
\* exists = false with an error string that tells which of the three
\* happened, and the analysis (no document check raising) still returns
\* the report with that result and the results of all other checks.
C15_RobotsFailureNotFatal ==
    /\ \A i \in 1..Len(robotsUrls) : 2 * robotsUrls[i].deadline = 15000
    /\ RobotsFailed(robotsRespA) =>
          /\ ~robotsAnalysis.exists
          /\ robotsAnalysis.error =
                (IF robotsRespA.kind = "abort" THEN "robots.txt check timed out"
                 ELSE IF robotsRespA.kind = "error" THEN "Error checking robots.txt"
                 ELSE "robots.txt check failed with status: 500")
          /\ (result.returned /\ faulty = "none") =>
                /\ result.hasChecks /\ result.error = ""
                /\ result.robotsTxt = robotsAnalysis
                /\ result.sitemap = sitemap /\ slotB = "done"
                /\ result.doc = docResults /\ started = DocChecks
    /\ RobotsFailed(robotsRespB) =>
          /\ ~robotsResult.exists /\ robotsResult.error # ""
          /\ candidates = WellKnown(Origin(fetched.finalUrl))
          /\ Len(probes) >= 1

C15_Witness ==
    /\ robotsRespA.kind = "abort" /\ robotsRespB.kind = "resp" /\ robotsRespB.status = 500
    /\ result.returned /\ result.hasChecks
    /\ result.robotsTxt.error = "robots.txt check timed out"
    /\ result.sitemap.exists

\* C16: every GET of checkSitemap directly follows the HEAD for the same
\* candidate URL, and at the moment the GET is issued that HEAD has been
\* answered 405 or 501; every candidate reached so far got its HEAD, once,
\* before any other request for it.
C16_HeadBeforeGet ==
    /\ \A i \in 1..Len(probes) :
          /\ probes[i].method \in {"HEAD", "GET"}
          /\ probes[i].method = "GET" =>
                /\ i > 1
                /\ probes[i - 1].method = "HEAD"
                /\ probes[i - 1].url = probes[i].url
          /\ probes[i].method = "HEAD" =>
                \A j \in 1..(i - 1) : probes[j].url # probes[i].url
    /\ \A j \in 1..cand :
          \E i \in 1..Len(probes) : probes[i].method = "HEAD" /\ probes[i].url = candidates[j]
    /\ slotB = "get" =>
          /\ probeResp.kind = "resp" /\ probeResp.status \in {405, 501}
          /\ probes[Len(probes)].method = "GET"
          /\ probes[Len(probes)].url = candidates[cand]
    /\ slotB = "head" =>
          /\ probes[Len(probes)].method = "HEAD"
          /\ probes[Len(probes)].url = candidates[cand]

C16_Witness ==
    /\ slotB = "get" /\ cand = 2 /\ probeResp.status = 501
    /\ Len(probes) = 4 /\ probes[2].method = "GET" /\ probes[4].method = "GET"

\* a 2xx response whose content type contains "xml" or "text"
Qualifies(o) ==
    /\ o.kind = "resp" /\ o.status \in 200..299
    /\ o.ctype \in {"application/xml", "text/html"}

\* C17: checkSitemap walks the candidates in order; it moves past a
\* candidate only after a response that does not qualify (another status, a
\* 2xx with another or no content type, a timeout, a failure); it returns
\* exists = true with the URL of the candidate whose response qualifies and
\* probes nothing after it; when the candidates are used up it returns
\* exists = false with the "Sitemap not found" error.
C17_FirstQualifyingWins ==
    /\ \A i \in 1..Len(probes) : \E j \in 1..cand : probes[i].url = candidates[j]
    /\ \A i, k \in 1..Len(probes) : \A j, l \in 1..Len(candidates) :
          (i < k /\ probes[i].url = candidates[j] /\ probes[k].url = candidates[l]) => j <= l
    /\ (slotB = "head" /\ cand = 1) => probeResp = NoOutcome
    /\ (slotB \in {"head", "get"} /\ cand > 1) => probeResp # NoOutcome
    /\ slotB \in {"head", "get"} => (~Qualifies(probeResp) /\ sitemap = NoSitemap)
    /\ (slotB = "done" /\ sitemap.exists) =>
          /\ Qualifies(probeResp)
          /\ sitemap.url = candidates[cand]
          /\ probes[Len(probes)].url = candidates[cand]
          /\ sitemap.error = ""
    /\ (slotB = "done" /\ ~sitemap.exists) =>
          /\ ~Qualifies(probeResp) /\ probeResp # NoOutcome
          /\ cand = Len(candidates)
          /\ sitemap.error = "Sitemap not found in common locations or robots.txt"

C17_Witness ==
    /\ slotB = "done" /\ sitemap.exists /\ cand = 2 /\ Len(candidates) = 3
    /\ probeResp.ctype = "text/html" /\ Len(probes) = 3
    /\ sitemap.url.path = "/sitemap_index.xml"

\* the number of requests with the given method that went to the URL u
ProbeCount(method, u) ==
    Cardinality({i \in 1..Len(probes) : probes[i].method = method /\ probes[i].url = u})

\* every sitemap request has a timer of half the page-fetch timeout; no
\* candidate got more than one HEAD and one GET; after a request that was
\* aborted or failed, checkSitemap has gone on to the next candidate or,
\* with none left, has returned "not found"
ProbesBounded ==
    /\ \A i \in 1..Len(probes) : 2 * probes[i].deadline = 15000
    /\ \A j \in 1..Len(candidates) :
          ProbeCount("HEAD", candidates[j]) <= 1 /\ ProbeCount("GET", candidates[j]) <= 1
    /\ Len(probes) <= 2 * Len(candidates)
    /\ cand <= Len(candidates)
    /\ probeResp.kind \in {"abort", "error"} =>
          \/ /\ slotB = "head" /\ cand > 1
             /\ probes[Len(probes)].url = candidates[cand]
             /\ probes[Len(probes) - 1].url = candidates[cand - 1]
          \/ /\ slotB = "done" /\ ~sitemap.exists /\ cand = Len(candidates)

\* C18: every sitemap request, HEAD or GET, runs under its own timer of
\* half the page-fetch timeout; a request that is aborted or fails makes
\* checkSitemap go on to the next candidate; checkSitemap, once started,
\* returns, after at most one HEAD and one GET per candidate.
C18_SitemapTerminates ==
    /\ []ProbesBounded
    /\ (slotB = "head") ~> (slotB = "done")

C18_Witness ==
    /\ slotB = "done" /\ ~sitemap.exists /\ probeResp.kind = "abort"
    /\ Len(candidates) = 3 /\ Len(probes) = 6

\* C19: a robots.txt request, a sitemap probe or a document check has
\* started only if the page fetch has ended without error; the robots.txt
\* requests, the well-known sitemap candidates and every probe use the origin
\* of finalUrl, the URL after redirects.
C19_ChecksAfterFetchOnFinalOrigin ==
    /\ (\/ robotsRequests > 0 \/ robotsUrls # <<>> \/ probes # <<>> \/ started # {}
        \/ slotA # "idle" \/ slotB # "idle")
          => (fetched.done /\ fetched.error = "" /\ pageResp.status \in 200..299
              /\ pc \notin {"received", "validating", "headers", "body", "fetched"})
    /\ \A i \in 1..Len(robotsUrls) :
          robotsUrls[i].url = [origin |-> Origin(fetched.finalUrl), path |-> "/robots.txt"]
    /\ \A i \in 1..Len(probes) : probes[i].url.origin = Origin(fetched.finalUrl)
    /\ candidates # <<>> =>
          /\ candidates[1] = [origin |-> Origin(fetched.finalUrl), path |-> "/sitemap.xml"]
          /\ candidates[2] = [origin |-> Origin(fetched.finalUrl), path |-> "/sitemap_index.xml"]

C19_Witness ==
    /\ Len(robotsUrls) = 2 /\ Len(probes) >= 2
    /\ pageFetched = << <<"http://", "h">> >>
    /\ Origin(fetched.finalUrl) = <<"https://", "h">>
    /\ robotsUrls[1].url.origin = <<"https://", "h">>
    /\ probes[1].url.origin = <<"https://", "h">>

\* the error message for a response of the content type ctype ("": none)
ContentTypeMessages ==
    [t \in {"application/json", "text/plain", ""} |->
        IF t = "application/json"
        THEN "Invalid content type: application/json. Expected text/html."
        ELSE IF t = "text/plain"
        THEN "Invalid content type: text/plain. Expected text/html."
        ELSE "Invalid content type: Not specified. Expected text/html."]

\* C20 as stated: every page response whose content type is missing or is
\* not text/html makes the fetch fail with the content-type error that names
\* the type, and the analysis fail without checks.
C20_NonHtmlAlwaysTypeError ==
    (faulty = "none" /\ pageResp.status # 0 /\ pageResp.ctype # "text/html; charset=utf-8") =>
        /\ fetched.done
        /\ fetched.error = ContentTypeMessages[pageResp.ctype]
        /\ result.returned => (result.error = fetched.error /\ ~result.hasChecks)

\* C20 amended: every page response with a 2xx status whose content type is
\* missing or is not text/html makes the fetch fail with the content-type
\* error that names the type seen ("Not specified" for none) and carries the
\* response status; nothing is started and the analysis returns that error
\* without checks.
C20_NonHtml2xxTypeError ==
    (pageResp.status \in 200..299 /\ pageResp.ctype # "text/html; charset=utf-8") =>
        /\ fetched.done
        /\ fetched.error = ContentTypeMessages[pageResp.ctype]
        /\ fetched.status = pageResp.status
        /\ robotsRequests = 0 /\ probes = <<>> /\ started = {} /\ dom = <<>>
        /\ result.returned => (result.error = fetched.error /\ ~result.hasChecks)

C20_Witness ==
    /\ result.returned /\ pageResp.status = 200 /\ pageResp.ctype = "application/json"
    /\ result.error = "Invalid content type: application/json. Expected text/html."
    /\ ~result.hasChecks

\* ------------------------------------------------ documents for the checks
\* the longest document of the per-check document sets
MaxDocLen == 2

\* ld+json script blocks: two valid bodies, an invalid one and an empty one
SchemaElems ==
    {Elem("script", "ok:1"), Elem("script", "ok:2"), Elem("script", "bad"),
     Elem("script", "")}

\* img elements of the four attribute classes
ImageElems ==
    {Elem("img", "nosrc"), Elem("img", "noalt"), Elem("img", "emptyalt"),
     Elem("img", "alt")}

\* headings of two levels, with and without text
HeadingElems ==
    {Elem("h1", "A"), Elem("h1", "B"), Elem("h1", ""), Elem("h2", "C")}

\* the three states of a meta tag: no element, an element with an empty
\* value, an element with a value
TagStates == {"absent", "empty", "value"}

MetaElem(tag, state, v) ==
    IF state = "absent" THEN <<>>
    ELSE <<Elem(tag, IF state = "empty" THEN "" ELSE v)>>

\* a head whose title tags and description tags are in the given states
MetaDoc(primary, og, twitter) ==
    MetaElem("twitter:title", twitter, "TT") \o MetaElem("og:title", og, "OT")
    \o MetaElem("title", primary, "T")
    \o MetaElem("meta:description", primary, "D")
    \o MetaElem("og:description", og, "OD")
    \o MetaElem("twitter:description", twitter, "TD")

MetaDocs == {MetaDoc(p, o, t) : p \in TagStates, o \in TagStates, t \in TagStates}

Docs ==
    SeqsUpTo(SchemaElems, MaxDocLen) \cup SeqsUpTo(ImageElems, MaxDocLen)
    \cup SeqsUpTo(HeadingElems, MaxDocLen) \cup MetaDocs

DocRequests == {<<"direct", <<"https://", "h">>>>}

\* one site, every document: the document checks on their inputs; the route
\* on the sample page
InitDoc ==
    \/ InitWith(DocRequests, Docs, {"none"}, {<<>>})
    \/ InitWith({<<"route", <<"https://", "h">>>>}, {SamplePage}, {"none"}, {<<>>})
    \/ InitSession

SpecDoc == InitDoc /\ [][Next]_vars

\* ------------------------------------------------------------ the server
ServerRequests == {<<"route", <<"https://", "h">>>>, <<"direct", <<"https://", "h">>>>}

\* two analyses at once
InitPair == InitServer(ServerRequests, "start", {}, 0)

\* an analysis request of alice and requests for stored reports, in any order
InitReports ==
    InitServer({<<"route", <<"https://", "h">>>>}, "off", InitialReports, MaxCalls)

SpecServer == (InitPair \/ InitReports) /\ [][Next]_vars

\* ------------------------------------------------ properties of the checks
\* C21: in the report of a page, every ld+json block of the page is accounted
\* for on its own: an invalid block is one parse-error entry and one count of
\* jsonLdParseErrors, a valid block is one entry of data, in document order.
C21_EveryBlockReported ==
    result.hasChecks =>
        LET scripts == SelectSeq2(page, {"script"})
        IN  /\ result.doc.schemaMarkup.data = SchemaData(scripts)
            /\ result.doc.schemaMarkup.jsonLdParseErrors = CountVal(scripts, "bad")

\* the number of img elements of the document in one attribute class
ImagesOfClass(doc, class) ==
    Cardinality({i \in 1..Len(doc) : doc[i].tag = "img" /\ doc[i].val = class})

\* C22: every image with a src is in exactly one of the classes alt missing,
\* alt empty, alt non-empty: missingAltCount and presentationalAltCount count
\* the first two classes, count counts the three, so no image is counted twice
\* and missingAltCount + presentationalAltCount <= count.
C22_ImageClassesDisjoint ==
    result.hasChecks =>
        LET images == result.doc.images
        IN  /\ images.missingAltCount = ImagesOfClass(page, "noalt")
            /\ images.presentationalAltCount = ImagesOfClass(page, "emptyalt")
            /\ images.count = ImagesOfClass(page, "noalt")
                              + ImagesOfClass(page, "emptyalt")
                              + ImagesOfClass(page, "alt")
            /\ images.missingAltCount + images.presentationalAltCount <= images.count

\* a report on <img src> and <img src alt="">: one image in each class
C22_Witness ==
    /\ result.hasChecks
    /\ page = <<Elem("img", "noalt"), Elem("img", "emptyalt")>>
    /\ result.doc.images.missingAltCount = 1
    /\ result.doc.images.presentationalAltCount = 1
    /\ result.doc.images.count = 2

\* the texts of the elements of one tag, in document order; withEmpty tells
\* whether an element without text has an entry
RECURSIVE TextsOfTag(_, _, _)
TextsOfTag(doc, tag, withEmpty) ==
    IF doc = <<>> THEN <<>>
    ELSE (IF doc[1].tag = tag /\ (withEmpty \/ doc[1].val # "")
          THEN <<doc[1].val>> ELSE <<>>) \o TextsOfTag(Tail(doc), tag, withEmpty)

\* the headings report lists, per level, the texts TextsOfTag gives
HeadingsReportIs(headings, doc, withEmpty) ==
    /\ \A t \in HeadingTags : headings.structure[t] = TextsOfTag(doc, t, withEmpty)
    /\ headings.h1Content = TextsOfTag(doc, "h1", withEmpty)
    /\ headings.h1Count = Len(TextsOfTag(doc, "h1", withEmpty))
    /\ headings.total = Len(headings.structure["h1"]) + Len(headings.structure["h2"])
                        + Len(headings.structure["h3"]) + Len(headings.structure["h4"])
                        + Len(headings.structure["h5"]) + Len(headings.structure["h6"])

\* C23: each level's list has one entry, in document order, per element of
\* the level, h1Count is the number of h1 elements, h1Content their texts and
\* total the sum of the six per-level counts.
C23_EveryHeadingCounted ==
    result.hasChecks => HeadingsReportIs(result.doc.headings, page, TRUE)

\* the first value of a chain that is present (not empty), "" if none is
RECURSIVE FirstPresent(_)
FirstPresent(chain) ==
    IF chain = <<>> THEN ""
    ELSE IF chain[1] # "" THEN chain[1] ELSE FirstPresent(Tail(chain))

\* C24: the Open Graph title/description is the OG tag when it is present and
\* not empty and the primary value otherwise; the Twitter Card
\* title/description is the first present value of twitter tag, OG tag,
\* primary value; a field is empty only when its whole chain is absent.
C24_FallbackChains ==
    result.hasChecks =>
        LET meta == result.doc.metaTags
            v(tag) == FirstVal(page, tag)
        IN  /\ meta.ogTitle = FirstPresent(<<v("og:title"), v("title")>>)
            /\ meta.ogDescription =
                   FirstPresent(<<v("og:description"), v("meta:description")>>)
            /\ meta.twitterTitle =
                   FirstPresent(<<v("twitter:title"), v("og:title"), v("title")>>)
            /\ meta.twitterDescription =
                   FirstPresent(<<v("twitter:description"), v("og:description"),
                                  v("meta:description")>>)
            /\ meta.ogTitle = "" => v("og:title") = "" /\ v("title") = ""
            /\ meta.twitterTitle = "" =>
                   v("twitter:title") = "" /\ v("og:title") = "" /\ v("title") = ""
            /\ meta.twitterDescription = "" =>
                   /\ v("twitter:description") = ""
                   /\ v("og:description") = ""
                   /\ v("meta:description") = ""

\* a report on a head with title and og:title but no twitter:title: the
\* Twitter Card title is the OG title
C24_Witness ==
    /\ result.hasChecks
    /\ page = MetaDoc("value", "value", "absent")
    /\ result.doc.metaTags.ogTitle = "OT"
    /\ result.doc.metaTags.twitterTitle = "OT"
    /\ result.doc.metaTags.twitterDescription = "OD"

\* C27: every document check's result in the report is that check applied
\* alone to the freshly parsed page, whatever the evaluation order; a page
\* with JSON-LD blocks is reported with those blocks.
C27_ChecksOrderIndependent ==
    result.hasChecks =>
        /\ result.doc.metaTags = analyzeMetaTags(page)
        /\ result.doc.headings = analyzeHeadings(page)
        /\ result.doc.images = analyzeImages(page)
        /\ result.doc.content = analyzeContent(page)
        /\ result.doc.mobileFriendly = checkMobileFriendliness(page)
        /\ result.doc.schemaMarkup = checkSchemaMarkup(page)

\* ------------------------------------------------- properties of the URL
\* the input carries an http or https scheme, in whatever letter case
HasHttpScheme(u) == Len(u) > 0 /\ u[1] \in SchemeTokens

\* C25: the URL requested from the network is the input with "http://"
\* prepended when the input has no scheme and the input itself when it has an
\* http or https scheme; it is the URL the validation parsed.
C25_SchemeNormalization ==
    pageFetched # <<>> =>
        /\ ~HasHttpScheme(url) => pageFetched[1] = <<"http://">> \o url
        /\ HasHttpScheme(url) => pageFetched[1] = url
        /\ UrlParses(pageFetched[1])

\* ------------------------------------------ properties of the report (2)
\* C28: the robots result reported as checks.robotsTxt is the robots result
\* the sitemap candidates were derived from.
C28_OneRobotsResult ==
    result.hasChecks => result.robotsTxt = robotsResult

\* C29: the route answers 200 only when a report with checks was produced and
\* saved; an analysis that ended without checks is answered with a non-2xx
\* status, and with 5xx when it ended in the catch block after the page was
\* fetched.
C29_Http200OnlyForSavedReport ==
    response.sent =>
        /\ response.status = 200 => (result.hasChecks /\ saved.written)
        /\ (result.returned /\ ~result.hasChecks) => response.status \notin 200..299
        /\ (result.returned /\ result.error = "Analysis failed after fetching content")
               => response.status >= 500

\* ------------------------------------------------ properties of the server
\* the variables of the first analysis and of its route
analysisVars ==
    <<pc, fetchVars, docVars, robotsVars, slotAVars, slotBVars, result, routeVars>>

\* a step writes no module-level state, and a step of one analysis leaves
\* the variables of the other alone
NoSharedWrite ==
    /\ userAgents' = userAgents
    /\ other' # other => UNCHANGED analysisVars
    /\ analysisVars' # analysisVars => other' = other

\* C26: two performSeoAnalysis calls interleaved in any way share no mutable
\* state: no step writes USER_AGENTS, no step of one call writes a variable
\* of the other, and the report of each call is the report the call produces
\* alone on its own page.
C26_AnalysesIndependent ==
    /\ [](result.hasChecks =>
             /\ result.doc = RunDocChecks(page, fetched.finalUrl, "none")
             /\ result.robotsTxt = robotsAnalysis
             /\ result.sitemap = sitemap)
    /\ [](other.pc = "done" =>
             other.doc = RunDocChecks(OtherPage, OtherFinalUrl, "none"))
    /\ [][NoSharedWrite]_vars

\* both analyses have produced their results, each on its own page
C26_Witness ==
    /\ result.hasChecks /\ other.pc = "done"
    /\ result.doc.headings.h1Content = <<"A">>
    /\ other.doc.headings.h1Content = <<"B">>

\* what a step of GET or DELETE /api/reports/:id may do: answer 200 only with
\* a stored report of that id owned by the caller, delete nothing but that
\* report, answer a request for a report of another user with 404 (500 when
\* the database rejected the query) and a malformed id with 400, both without
\* a change of the stored reports
OwnReportsOnly ==
    calls' # calls =>
        LET r == apiResponse'
            mine == {x \in store : x.id = r.id /\ x.userId = r.userId}
            foreign == {x \in store : x.id = r.id /\ x.userId # r.userId}
        IN  /\ r.status = 200 => (r.report = mine /\ mine # {})
            /\ r.status # 200 => (r.report = {} /\ store' = store)
            /\ store' \subseteq store /\ (store \ store') \subseteq mine
            /\ r.method = "GET" => store' = store
            /\ foreign # {} => (r.status \in {404, 500} /\ store' = store)
            /\ ~isValid(r.id) => (r.status = 400 /\ store' = store)

====
